---- MODULE Spec2Model ----
(***************************************************************************)
(* A model of fastroutes: the route extractor (route.py), the name         *)
(* resolver (helpers.py), the model dependency builder and the assembler   *)
(* (client.py), the handler emitter (route.py) and the fetch tool (cli.py).*)
(*                                                                         *)
(* Text is a sequence of one-character strings, so that capitalize,        *)
(* startswith, endswith, slicing, split and replace are computed on        *)
(* characters as Python computes them.                                     *)
(***************************************************************************)
EXTENDS Naturals, Sequences, FiniteSets, TLC

VARIABLES
    pc,                 \* position of the run
    classes,            \* the host's model classes: id -> declaration
    table,              \* app.routes, the host route table
    paths_to_exclude,   \* the exclusion list given to FastRoutes (<<>> for None)
    routes,             \* FastRoutes.routes
    raised,             \* the exception that ended the run, or "none"
    models,             \* what get_models computed
    handlers,           \* what Route.handler rendered, one per route
    resolved,           \* get_model_name of each class
    url,                \* generate: the url argument
    output,             \* generate: the output argument, a path
    net,                \* generate: what the HTTP GET does
    fs,                 \* generate: the file system
    report,             \* generate: what was printed
    exit_code           \* generate: the process exit code

vars == <<pc, classes, table, paths_to_exclude, routes, raised, models,
          handlers, resolved, url, output, net, fs, report, exit_code>>

cliVars == <<url, output, net, fs, report, exit_code>>

-----------------------------------------------------------------------------
(* Text helpers                                                            *)

Lowers == <<"a","b","c","d","e","f","g","h","i","j","k","l","m",
            "n","o","p","q","r","s","t","u","v","w","x","y","z">>
Uppers == <<"A","B","C","D","E","F","G","H","I","J","K","L","M",
            "N","O","P","Q","R","S","T","U","V","W","X","Y","Z">>

\* str.upper / str.lower on one character
Upper(c) ==
    IF \E i \in 1..26 : Lowers[i] = c
    THEN Uppers[CHOOSE i \in 1..26 : Lowers[i] = c]
    ELSE c

Lower(c) ==
    IF \E i \in 1..26 : Uppers[i] = c
    THEN Lowers[CHOOSE i \in 1..26 : Uppers[i] = c]
    ELSE c

\* "".join(parts)
RECURSIVE Join(_)
Join(parts) ==
    IF parts = <<>> THEN <<>> ELSE Head(parts) \o Join(Tail(parts))

\* s.startswith(p), s.endswith(p)
StartsWith(s, p) ==
    Len(p) <= Len(s) /\ SubSeq(s, 1, Len(p)) = p

EndsWith(s, p) ==
    Len(p) <= Len(s) /\ SubSeq(s, Len(s) - Len(p) + 1, Len(s)) = p

\* p in s
Contains(s, p) ==
    \E i \in 1..(Len(s) + 1) :
        i + Len(p) - 1 <= Len(s) /\ SubSeq(s, i, i + Len(p) - 1) = p

\* the positions at or after p where pat occurs in s
MatchesFrom(s, pat, p) ==
    {i \in p..(Len(s) - Len(pat) + 1) : SubSeq(s, i, i + Len(pat) - 1) = pat}

Least(S) == CHOOSE i \in S : \A j \in S : i <= j

\* s.replace(old, new): leftmost, non-overlapping occurrences, from position p on
RECURSIVE ReplaceFrom(_, _, _, _)
ReplaceFrom(s, old, new, p) ==
    LET hits == MatchesFrom(s, old, p) IN
    IF old = <<>> \/ hits = {} THEN SubSeq(s, p, Len(s))
    ELSE SubSeq(s, p, Least(hits) - 1) \o new
         \o ReplaceFrom(s, old, new, Least(hits) + Len(old))

Replace(s, old, new) == ReplaceFrom(s, old, new, 1)

\* s.split(sep), from position p on
RECURSIVE SplitFrom(_, _, _)
SplitFrom(s, sep, p) ==
    LET hits == MatchesFrom(s, sep, p) IN
    IF hits = {} THEN <<SubSeq(s, p, Len(s))>>
    ELSE <<SubSeq(s, p, Least(hits) - 1)>> \o SplitFrom(s, sep, Least(hits) + Len(sep))

Split(s, sep) == SplitFrom(s, sep, 1)

-----------------------------------------------------------------------------
(* helpers.py: the name resolver                                           *)

\* str.capitalize(): first character upper-cased, the rest lower-cased
Capitalize(w) ==
    IF w = <<>> THEN <<>>
    ELSE <<Upper(w[1])>> \o [i \in 1..(Len(w) - 1) |-> Lower(w[i + 1])]

\* get_model_name(return_type): return_type.__module__ is kept split at "."
get_model_name(cls) ==
    Join([i \in 1..Len(cls.module) |-> Capitalize(cls.module[i])]) \o cls.name

-----------------------------------------------------------------------------
(* Type references: what get_origin / get_args / isinstance tell apart     *)

PARAMETER_UNDEFINED == "_PARAMETER_UNDEFINED"
PydanticUndefined == "PydanticUndefined"

\* repr(default) of the default values the model uses
DefaultRepr(default) ==
    CASE default = "None" -> <<"N","o","n","e">>
      [] default = "5" -> <<"5">>
      [] default = "0" -> <<"0">>
      [] OTHER -> <<"'">> \o <<default>> \o <<"'">>

TNone == [k |-> "none", n |-> <<>>, id |-> 0, a |-> <<>>]
TScalar(nm) == [k |-> "scalar", n |-> nm, id |-> 0, a |-> <<>>]
TModel(i) == [k |-> "model", n |-> <<>>, id |-> i, a |-> <<>>]
TList(e) == [k |-> "list", n |-> <<>>, id |-> 0, a |-> <<e>>]
TDict(kt, vt) == [k |-> "dict", n |-> <<>>, id |-> 0, a |-> <<kt, vt>>]
TLiteral(vals) == [k |-> "literal", n |-> <<>>, id |-> 0, a |-> vals]
TUnion(ts) == [k |-> "union", n |-> <<>>, id |-> 0, a |-> ts]

c_int == <<"i","n","t">>
c_str == <<"s","t","r">>
c_list == <<"l","i","s","t">>
c_dict == <<"d","i","c","t">>
c_datetime == <<"d","a","t","e","t","i","m","e">>
c_NoneType == <<"N","o","n","e","T","y","p","e">>
c_None == <<"N","o","n","e">>
c_Literal == <<"L","i","t","e","r","a","l">>

TInt == TScalar(c_int)
TStr == TScalar(c_str)
TDatetime == TScalar(c_datetime)
TBareList == TScalar(c_list)
TNoneType == TScalar(c_NoneType)

\* pydantic.main.BaseModel, class id 0
BaseModelDecl ==
    [module |-> << <<"p","y","d","a","n","t","i","c">>, <<"m","a","i","n">> >>,
     name |-> <<"B","a","s","e","M","o","d","e","l">>,
     base |-> 0,
     fields |-> <<>>,
     validator |-> FALSE]

\* a model field (pydantic FieldInfo): annotation, default, default_factory
Field(name, type, default, default_factory) ==
    [name |-> name, type |-> type, default |-> default, default_factory |-> default_factory]

\* the class with id i
ClassOf(cls, i) == IF i = 0 THEN BaseModelDecl ELSE cls[i]

-----------------------------------------------------------------------------
(* route.py: Parameter and Route.extract                                   *)

\* what a raising call yields in place of a value
ValueError == "ValueError"

\* Parameter(alias, type_, required, default): the host's PydanticUndefined
\* becomes PARAMETER_UNDEFINED
Parameter(alias, type, required, default) ==
    [alias |-> alias,
     type |-> type,
     required |-> required,
     default |-> IF default # PydanticUndefined THEN default ELSE PARAMETER_UNDEFINED]

\* Parameter of a host parameter record (route.dependant.path_params / query_params)
ParameterOf(param) == Parameter(param.alias, param.type, param.required, param.default)

method_priority == <<"GET", "POST", "DELETE", "PUT", "PATCH", "HEAD", "OPTIONS">>

\* Route.get_method with the priority list read from its end
get_method_last(methods) ==
    IF \E i \in 1..Len(method_priority) : method_priority[i] \in methods
    THEN method_priority[CHOOSE i \in 1..Len(method_priority) :
            /\ method_priority[i] \in methods
            /\ \A j \in (i + 1)..Len(method_priority) : method_priority[j] \notin methods]
    ELSE ValueError

\* Route.get_method: the first name of method_priority in methods, else ValueError
get_method(methods) ==
    IF \E i \in 1..Len(method_priority) : method_priority[i] \in methods
    THEN method_priority[CHOOSE i \in 1..Len(method_priority) :
            /\ method_priority[i] \in methods
            /\ \A j \in 1..(i - 1) : method_priority[j] \notin methods]
    ELSE ValueError

\* route.path in paths_to_exclude, for a list
InList(x, lst) == \E i \in 1..Len(lst) : lst[i] = x

\* the skip decision without the exclusion list
SkippedKindOnly(entry, excl) == entry.kind # "APIRoute"

\* the branch of Route.extract's loop body that decides whether an entry is skipped
Skipped(entry, excl) ==
    \/ entry.kind # "APIRoute"
    \/ (excl # <<>> /\ InList(entry.path, excl))

\* the Route built from entry number index (0-based, as enumerate counts)
RouteOf(index, entry) ==
    [index |-> index,
     name |-> entry.name,
     method |-> get_method(entry.methods),
     path |-> entry.path,
     description |-> entry.description,
     body |-> entry.body,
     path_parameters |-> [i \in 1..Len(entry.path_params) |-> ParameterOf(entry.path_params[i])],
     query_parameters |-> [i \in 1..Len(entry.query_params) |-> ParameterOf(entry.query_params[i])],
     response |-> entry.response]

\* Route.extract's loop from entry pos on, with the routes appended so far:
\* [raised, routes]; a raise drops the list
RECURSIVE ExtractFrom(_, _, _, _)
ExtractFrom(tbl, excl, pos, acc) ==
    IF pos > Len(tbl) THEN [raised |-> "none", routes |-> acc]
    ELSE IF Skipped(tbl[pos], excl) THEN ExtractFrom(tbl, excl, pos + 1, acc)
    ELSE IF get_method(tbl[pos].methods) = ValueError
         THEN [raised |-> ValueError, routes |-> <<>>]
         ELSE ExtractFrom(tbl, excl, pos + 1, Append(acc, RouteOf(pos - 1, tbl[pos])))

\* Route.extract(app, paths_to_exclude)
extract(tbl, excl) == ExtractFrom(tbl, excl, 1, <<>>)

-----------------------------------------------------------------------------
(* client.py: the source text of a model class                             *)

c_class == <<"c","l","a","s","s"," ">>
c_indent == <<" "," "," "," ">>
c_nl == <<"\n">>
c_colon == <<":"," ">>
c_lpar == <<"(">>
c_rpar == <<")">>
c_lbr == <<"[">>
c_rbr == <<"]">>
c_comma == <<","," ">>
c_at == <<"@">>
c_eq == <<" ", "=", " ">>
c_factory == <<"F", "i", "e", "l", "d", "(", "d", "e", "f", "a", "u", "l", "t", "_", "f", "a", "c", "t", "o", "r", "y", "=", "i", "n", "t", ")">>
c_def == <<"d","e","f"," ">>

\* how a field's annotation is written in the class source
RECURSIVE AnnotationText(_, _)
AnnotationText(cls, t) ==
    CASE t.k = "model" -> ClassOf(cls, t.id).name
      [] t.k = "list" -> c_list \o c_lbr \o AnnotationText(cls, t.a[1]) \o c_rbr
      [] t.k = "dict" -> c_dict \o c_lbr \o AnnotationText(cls, t.a[1]) \o c_comma
                            \o AnnotationText(cls, t.a[2]) \o c_rbr
      [] OTHER -> t.n

\* the lines inspect.getsource(cls) returns: the header, the fields, then
\* the class's decorated validator when it declares one
SourceLines(cls, i) ==
    LET d == ClassOf(cls, i) IN
    << c_class \o d.name \o c_lpar \o ClassOf(cls, d.base).name \o c_rpar \o <<":">> >>
    \o [f \in 1..Len(d.fields) |->
            c_indent \o d.fields[f].name \o c_colon \o AnnotationText(cls, d.fields[f].type)
            \o (IF d.fields[f].default_factory THEN c_eq \o c_factory
                ELSE IF d.fields[f].default # PydanticUndefined
                     THEN c_eq \o DefaultRepr(d.fields[f].default)
                     ELSE <<>>)]
    \o (IF d.validator
        THEN << c_indent \o c_at \o <<"v">>,
                c_indent \o c_def \o <<"v","(",")",":">>,
                c_indent \o c_indent \o <<"p","a","s","s">> >>
        ELSE <<>>)

\* line.lstrip()
RECURSIVE LStrip(_)
LStrip(line) ==
    IF line # <<>> /\ Head(line) = " " THEN LStrip(Tail(line)) ELSE line

\* the lines kept by strip_decorators_from_source: up to the first line that
\* starts a decorator or a def
RECURSIVE KeptLines(_)
KeptLines(lines) ==
    IF lines = <<>> THEN <<>>
    ELSE IF StartsWith(LStrip(Head(lines)), c_at) \/ StartsWith(LStrip(Head(lines)), c_def)
         THEN <<>>
         ELSE <<Head(lines)>> \o KeptLines(Tail(lines))

\* "\n".join(lines)
RECURSIVE JoinLines(_)
JoinLines(lines) ==
    IF lines = <<>> THEN <<>>
    ELSE IF Len(lines) = 1 THEN Head(lines)
    ELSE Head(lines) \o c_nl \o JoinLines(Tail(lines))

\* FastRoutes.strip_decorators_from_source(cls)
strip_decorators_from_source(cls, i) == JoinLines(KeptLines(SourceLines(cls, i)))

\* Model(name, code, parent_name)
Model(name, code, parent_name) ==
    [name |-> name, code |-> code, parent_name |-> parent_name]

\* the Model get_models builds for class i under the name model_name
\* (lines 81-87, and 121-127 for a spliced ancestor)
RenamedSource(cls, i, model_name) ==
    Replace(strip_decorators_from_source(cls, i),
            c_class \o ClassOf(cls, i).name, c_class \o model_name)

-----------------------------------------------------------------------------
(* client.py: FastRoutes.get_models, discovery (lines 40-91)               *)

IndexError == "IndexError"
RecursionError == "RecursionError"

\* typing.get_args(t): empty for a type that is not a parameterised generic
get_args(t) == IF t.k \in {"list", "dict", "literal", "union"} THEN t.a ELSE <<>>

\* Route.return_types: [body] + path_parameters + query_parameters + [response];
\* a Parameter object is neither a generic nor a model class
ParameterObject == [k |-> "parameter", n |-> <<>>, id |-> 0, a |-> <<>>]

return_types(route) ==
    << IF route.body = 0 THEN TNone ELSE TModel(route.body) >>
    \o [i \in 1..Len(route.path_parameters) |-> ParameterObject]
    \o [i \in 1..Len(route.query_parameters) |-> ParameterObject]
    \o << route.response >>

\* lines 68-73: the types looked at for one return type
RtsOf(return_type) ==
    IF return_type.k = "list" THEN get_args(return_type)
    ELSE IF return_type.k = "dict" THEN get_args(return_type)
    ELSE <<return_type>>

\* the element a list-typed field contributes (line 51): the first argument of
\* the enclosing loop's return_type, not of the field's annotation
ListElementArgs(field_type, return_type) == get_args(return_type)

\* get_models_from_fields(model, models), from field number fi on; stack holds the
\* models whose call is active, and a call on one of them never returns
\* (Python ends it with RecursionError). [err, models]
RECURSIVE FieldsFrom(_, _, _, _, _, _)
FieldsFrom(cls, m, return_type, fi, acc, stack) ==
    LET fields == ClassOf(cls, m).fields
        Enter(child, acc1) ==
            IF child \in stack
            THEN [err |-> RecursionError, models |-> <<>>]
            ELSE FieldsFrom(cls, child, return_type, 1, acc1, stack \cup {child})
        Continue(r) ==
            IF r.err # "none" THEN r
            ELSE FieldsFrom(cls, m, return_type, fi + 1, r.models, stack)
    IN
    IF fi > Len(fields) THEN [err |-> "none", models |-> acc]
    ELSE LET annotation == fields[fi].type IN
         IF annotation.k = "model"
         THEN Continue(Enter(annotation.id, Append(acc, annotation.id)))
         ELSE IF annotation.k = "list"
         THEN LET args == ListElementArgs(annotation, return_type) IN
              IF args = <<>> THEN [err |-> IndexError, models |-> <<>>]
              ELSE IF args[1].k = "model"
                   THEN Continue(Enter(args[1].id, Append(acc, args[1].id)))
                   ELSE Continue([err |-> "none", models |-> acc])
         ELSE Continue([err |-> "none", models |-> acc])

get_models_from_fields(cls, m, return_type) ==
    FieldsFrom(cls, m, return_type, 1, <<>>, {m})

\* mapping[key] = value on an insertion-ordered dict kept as a sequence of pairs
DictSet(mapping, key, value) ==
    IF \E i \in 1..Len(mapping) : mapping[i].old = key
    THEN [i \in 1..Len(mapping) |->
            IF mapping[i].old = key THEN [old |-> key, new |-> value] ELSE mapping[i]]
    ELSE Append(mapping, [old |-> key, new |-> value])

\* the state get_models starts its loops with (lines 60-64)
DiscoveryStart ==
    [err |-> "none",
     already_written |-> <<get_model_name(BaseModelDecl)>>,
     mapping |-> <<>>,
     relationships |-> <<>>,
     all_models |-> <<>>]

\* lines 77-91 for one rtm
Register(cls, g, rtm) ==
    LET model_name == get_model_name(ClassOf(cls, rtm))
        mdl == Model(model_name,
                     RenamedSource(cls, rtm, model_name),
                     get_model_name(ClassOf(cls, ClassOf(cls, rtm).base)))
    IN
    IF InList(model_name, g.already_written) THEN g
    ELSE [g EXCEPT
            !.mapping = DictSet(@, ClassOf(cls, rtm).name, model_name),
            !.relationships = Append(@, mdl),
            !.already_written = Append(@, model_name),
            !.all_models = Append(@, [name |-> model_name, model |-> mdl, cls |-> rtm])]

RECURSIVE RegisterAll(_, _, _)
RegisterAll(cls, g, rtms) ==
    IF rtms = <<>> THEN g
    ELSE RegisterAll(cls, Register(cls, g, Head(rtms)), Tail(rtms))

\* lines 74-91 for the types rts of one return type
RECURSIVE DiscoverRts(_, _, _, _)
DiscoverRts(cls, g, return_type, rts) ==
    IF rts = <<>> \/ g.err # "none" THEN g
    ELSE LET rt == Head(rts) IN
         IF rt.k = "model"
         THEN LET r == get_models_from_fields(cls, rt.id, return_type) IN
              IF r.err # "none" THEN [g EXCEPT !.err = r.err]
              ELSE DiscoverRts(cls, RegisterAll(cls, g, Append(r.models, rt.id)),
                               return_type, Tail(rts))
         ELSE DiscoverRts(cls, g, return_type, Tail(rts))

\* line 67's loop over one route's return types
RECURSIVE DiscoverTypes(_, _, _)
DiscoverTypes(cls, g, rtypes) ==
    IF rtypes = <<>> \/ g.err # "none" THEN g
    ELSE DiscoverTypes(cls, DiscoverRts(cls, g, Head(rtypes), RtsOf(Head(rtypes))),
                       Tail(rtypes))

\* line 66's loop over self.routes
RECURSIVE Discover(_, _, _)
Discover(cls, g, rs) ==
    IF rs = <<>> \/ g.err # "none" THEN g
    ELSE Discover(cls, DiscoverTypes(cls, g, return_types(Head(rs))), Tail(rs))

-----------------------------------------------------------------------------
(* client.py: FastRoutes.get_models, ordering and rewriting (lines 93-139) *)

\* relationships.get(parent_name, [])
ChildrenOf(relationships, parent_name) ==
    SelectSeq(relationships, LAMBDA mdl : mdl.parent_name = parent_name)

\* dfs(parent_name) over the children kids from number i on; stack holds the
\* names whose dfs call is active. [err, order]
RECURSIVE DfsFrom(_, _, _, _, _)
DfsFrom(relationships, kids, i, acc, stack) ==
    IF i > Len(kids) THEN [err |-> "none", order |-> acc]
    ELSE LET child == kids[i]
             below == IF child.name \in stack
                      THEN [err |-> RecursionError, order |-> <<>>]
                      ELSE DfsFrom(relationships, ChildrenOf(relationships, child.name), 1,
                                   Append(acc, child), stack \cup {child.name})
         IN IF below.err # "none" THEN below
            ELSE DfsFrom(relationships, kids, i + 1, below.order, stack)

dfs(relationships, parent_name) ==
    DfsFrom(relationships, ChildrenOf(relationships, parent_name), 1, <<>>, {parent_name})

c_PydanticMainBaseModel ==
    <<"P","y","d","a","n","t","i","c","M","a","i","n","B","a","s","e","M","o","d","e","l">>

\* extract_parents(model, models_to_export): the ancestors below BaseModel,
\* the farthest first
RECURSIVE extract_parents(_, _, _)
extract_parents(cls, model, models_to_export) ==
    LET parent == ClassOf(cls, model).base IN
    IF parent = 0 THEN models_to_export
    ELSE extract_parents(cls, parent, <<parent>> \o models_to_export)

\* lines 120-129: what is put in front of correct_order for one model that dfs
\* did not reach
Spliced(cls, model_name, pydantic_model) ==
    LET to_add == extract_parents(cls, pydantic_model, <<>>) IN
    [i \in 1..Len(to_add) |->
        Model(model_name,
              RenamedSource(cls, to_add[i], model_name),
              get_model_name(ClassOf(cls, to_add[i])))]

\* correct_order_names (filled by dfs only)
NamesOf(order) == [i \in 1..Len(order) |-> order[i].name]

\* lines 117-129
RECURSIVE SpliceAll(_, _, _, _)
SpliceAll(cls, all_models, correct_order_names, correct_order) ==
    IF all_models = <<>> THEN correct_order
    ELSE LET e == Head(all_models) IN
         SpliceAll(cls, Tail(all_models), correct_order_names,
                   IF InList(e.name, correct_order_names)
                   THEN correct_order
                   ELSE Spliced(cls, e.name, e.cls) \o correct_order)

\* lines 131-133
RECURSIVE ModelsCode(_)
ModelsCode(order) ==
    IF order = <<>> THEN <<>>
    ELSE Head(order).code \o c_nl \o c_nl \o ModelsCode(Tail(order))

\* lines 135-138: one mapping entry applied to the text
RewriteOne(text, old_value, new_value) ==
    Replace(Replace(text, c_lpar \o old_value \o c_rpar, c_lpar \o new_value \o c_rpar),
            c_colon \o old_value, c_colon \o new_value)

RECURSIVE RewriteAll(_, _)
RewriteAll(text, mapping) ==
    IF mapping = <<>> THEN text
    ELSE RewriteAll(RewriteOne(text, Head(mapping).old, Head(mapping).new), Tail(mapping))

\* FastRoutes.get_models on self.routes = rs:
\* [raised, all_models, mapping, correct_order, code]
get_models(cls, rs) ==
    LET g == Discover(cls, DiscoveryStart, rs)
        d == dfs(g.relationships, c_PydanticMainBaseModel)
        order == SpliceAll(cls, g.all_models, NamesOf(d.order), d.order)
        failed(e) == [raised |-> e, all_models |-> <<>>, mapping |-> <<>>,
                      correct_order |-> <<>>, code |-> <<>>]
    IN
    IF g.err # "none" THEN failed(g.err)
    ELSE IF d.err # "none" THEN failed(d.err)
    ELSE [raised |-> "none",
          all_models |-> g.all_models,
          mapping |-> g.mapping,
          correct_order |-> order,
          code |-> RewriteAll(ModelsCode(order), g.mapping) \o c_nl \o c_nl \o c_nl]

-----------------------------------------------------------------------------
(* Values of the variables a run does not use                              *)

NoModels == [raised |-> "none", all_models |-> <<>>, mapping |-> <<>>,
             correct_order |-> <<>>, code |-> <<>>]
NoReport == [said |-> "none", requested |-> <<>>]
NoFs == [dirs |-> {}, files |-> <<>>]

IdlePipe ==
    /\ classes = <<>> /\ table = <<>> /\ paths_to_exclude = <<>> /\ routes = <<>>
    /\ raised = "none" /\ models = NoModels /\ handlers = <<>> /\ resolved = <<>>

IdleCli ==
    /\ url = <<>> /\ output = <<>> /\ net = "none" /\ fs = NoFs
    /\ report = NoReport /\ exit_code = 0

-----------------------------------------------------------------------------
(* The name resolver on two declared model types                           *)

NameAlphabet == {"a", "A"}
MaxSegLen == 2
MaxSegs == 2
MaxNameLen == 2

Words(n) == UNION {[1..k -> NameAlphabet] : k \in 1..n}
ModulePaths == UNION {[1..k -> Words(MaxSegLen)] : k \in 1..MaxSegs}
NamedTypes ==
    {[module |-> m, name |-> n, base |-> 0, fields |-> <<>>, validator |-> FALSE] :
        m \in ModulePaths, n \in Words(MaxNameLen)}

InitName ==
    /\ pc = "declared"
    /\ classes \in [1..2 -> NamedTypes]
    /\ table = <<>> /\ paths_to_exclude = <<>> /\ routes = <<>>
    /\ raised = "none" /\ models = NoModels /\ handlers = <<>> /\ resolved = <<>>
    /\ IdleCli

\* get_model_name applied to every declared class
ResolveNames ==
    /\ pc = "declared"
    /\ resolved' = [i \in 1..Len(classes) |-> get_model_name(classes[i])]
    /\ pc' = "resolved"
    /\ UNCHANGED <<classes, table, paths_to_exclude, routes, raised, models, handlers>>
    /\ UNCHANGED cliVars

NextName == ResolveNames

SpecName == InitName /\ [][NextName]_vars

\* C4: two model types that differ in module path or in simple name get
\* different resolved names.
NamesCollisionFree ==
    pc = "resolved" =>
        ((classes[1].module # classes[2].module \/ classes[1].name # classes[2].name)
            => resolved[1] # resolved[2])

-----------------------------------------------------------------------------
(* get_models on the routes of a constructed FastRoutes                    *)

NumModels == 3
MaxRoutes == 2

ModelIds == 1..NumModels

\* the class after i, around the circle
NextModel(i) == (i % NumModels) + 1

\* the annotations the one field of class i is drawn from
FieldTypes(i) ==
    {TInt, TList(TInt), TModel(NextModel(i)), TList(TModel(NextModel(i))),
     TDict(TStr, TModel(NextModel(i)))}

FieldLists(i) == {<<Field(<<"f">>, t, PydanticUndefined, FALSE)>> : t \in FieldTypes(i)}

\* class i of module m: named by the i-th capital letter; class 1 declares a
\* validator
ClassDecl(i, base, fields) ==
    [module |-> << <<"m">> >>, name |-> <<Uppers[i]>>, base |-> base,
     fields |-> fields, validator |-> (i = 1)]

\* a class derives from BaseModel or from an earlier class
ClassUniverses ==
    {[i \in ModelIds |-> ClassDecl(i, bs[i], fl[i])] :
        bs \in {b \in [ModelIds -> 0..(NumModels - 1)] : \A i \in ModelIds : b[i] < i},
        fl \in {f \in [ModelIds -> UNION {FieldLists(i) : i \in ModelIds}] :
                    \A i \in ModelIds : f[i] \in FieldLists(i)}}

Responses ==
    {TNone} \cup {TModel(i) : i \in ModelIds} \cup {TList(TModel(i)) : i \in ModelIds}
            \cup {TDict(TStr, TModel(i)) : i \in ModelIds}

\* the Route at position i of self.routes: no body, one path parameter
PlainRoute(i, response) ==
    [index |-> i - 1, name |-> "handler", method |-> "GET", path |-> "/p",
     description |-> "", body |-> 0,
     path_parameters |-> <<Parameter(<<"i","d">>, TInt, TRUE, PydanticUndefined)>>,
     query_parameters |-> <<>>,
     response |-> response]

RouteLists ==
    UNION {{[i \in 1..n |-> PlainRoute(i, rs[i])] : rs \in [1..n -> Responses]} : n \in 1..MaxRoutes}

InitModels ==
    /\ pc = "constructed"
    /\ classes \in ClassUniverses
    /\ routes \in RouteLists
    /\ table = <<>> /\ paths_to_exclude = <<>>
    /\ raised = "none" /\ models = NoModels /\ handlers = <<>> /\ resolved = <<>>
    /\ IdleCli

\* FastRoutes.get_models(): an exception ends the run
GetModels ==
    /\ pc = "constructed"
    /\ \E r \in {get_models(classes, routes)} :
        /\ models' = r
        /\ raised' = r.raised
        /\ pc' = IF r.raised = "none" THEN "models" ELSE "raised"
    /\ UNCHANGED <<classes, table, paths_to_exclude, routes, handlers, resolved>>
    /\ UNCHANGED cliVars

NextModels == GetModels

SpecModels == InitModels /\ [][NextModels]_vars

\* the classes get_models registered
Discovered == {models.all_models[i].cls : i \in 1..Len(models.all_models)}

\* the superclasses of class c below BaseModel
RECURSIVE AncestorsOf(_, _)
AncestorsOf(cls, c) ==
    IF cls[c].base = 0 THEN {} ELSE {cls[c].base} \cup AncestorsOf(cls, cls[c].base)

\* discovered, or an ancestor of a discovered class
Reachable == Discovered \cup UNION {AncestorsOf(classes, c) : c \in Discovered}

\* record m carries the class body of class c (under the name m has)
CarriesBodyOf(m, c) == m.code = RenamedSource(classes, c, m.name)

\* record m is the definition of class c: its resolved name and its own body
IsDefinitionOf(m, c) ==
    m.name = get_model_name(classes[c]) /\ CarriesBodyOf(m, c)

\* C1: for every reachable pair (subclass, superclass) the emission order
\* holds the superclass's definition strictly before the subclass's.
SuperclassBeforeSubclass ==
    pc = "models" =>
        \A sub \in Reachable : \A sup \in AncestorsOf(classes, sub) :
            \E i, j \in 1..Len(models.correct_order) :
                /\ i < j
                /\ CarriesBodyOf(models.correct_order[i], sup)
                /\ CarriesBodyOf(models.correct_order[j], sub)

\* C2: every discovered model is in the emission order exactly once, as the
\* record with its own resolved name and its own class body, and no resolved
\* name is on two records.
EveryDiscoveredModelOnce ==
    pc = "models" =>
        /\ \A c \in Discovered :
              Cardinality({i \in 1..Len(models.correct_order) :
                              IsDefinitionOf(models.correct_order[i], c)}) = 1
        /\ \A i, j \in 1..Len(models.correct_order) :
              models.correct_order[i].name = models.correct_order[j].name => i = j

\* the model a field of this annotation refers to: itself, its list element
\* or its mapping value
FieldModels(annotation) ==
    IF annotation.k = "model" THEN {annotation.id}
    ELSE IF annotation.k = "list" /\ annotation.a[1].k = "model" THEN {annotation.a[1].id}
    ELSE IF annotation.k = "dict" /\ annotation.a[2].k = "model" THEN {annotation.a[2].id}
    ELSE {}

\* the models the fields of class c refer to
FieldDeps(cls, c) ==
    UNION {FieldModels(cls[c].fields[f].type) : f \in 1..Len(cls[c].fields)}

\* S closed under FieldDeps
RECURSIVE FieldClosure(_, _)
FieldClosure(cls, S) ==
    LET T == S \cup UNION {FieldDeps(cls, c) : c \in S} IN
    IF T = S THEN S ELSE FieldClosure(cls, T)

\* the models the routes name: a body, a response, a list element, a mapping
\* key or value
RouteModels(rs) ==
    UNION {{t.id : t \in {RtsOf(rt)[k] : k \in 1..Len(RtsOf(rt))} \cap {TModel(i) : i \in ModelIds}} :
            rt \in UNION {{return_types(rs[r])[k] : k \in 1..Len(return_types(rs[r]))} :
                            r \in 1..Len(rs)}}

\* C3: discovery yields the routes' models together with exactly the models
\* their fields refer to (directly, as list element or as mapping value),
\* recursively, whatever the type of the route that led to them.
FieldsContributeTheirOwnModels ==
    pc = "models" => Discovered = FieldClosure(classes, RouteModels(routes))

\* the original simple name of class c is still referred to in text, in
\* superclass position, as a field annotation, or as a list or mapping element
RefersToOriginal(text, c) ==
    LET n == classes[c].name IN
    \/ Contains(text, c_lpar \o n \o c_rpar)
    \/ Contains(text, c_colon \o n \o c_nl)
    \/ Contains(text, c_lbr \o n \o c_rbr)
    \/ Contains(text, c_comma \o n \o c_rbr)

\* C9: in the model section no reference to a discovered model's original
\* simple name is left in superclass position, field annotation position or
\* list/mapping element position: each has been rewritten to the resolved name.
ReferencesRewritten ==
    pc = "models" => \A c \in Discovered : ~RefersToOriginal(models.code, c)

\* C11: model discovery and ordering in get_models terminates and returns: no
\* run of get_models ends in unbounded recursion (which Python ends with
\* RecursionError), whatever the routes' responses and the models' fields are.
DiscoveryReturns ==
    pc = "raised" => raised # RecursionError


-----------------------------------------------------------------------------
(* route.py: Parameter.__str__, Route.response_signature, Route.handler    *)

\* sep.join(parts)
RECURSIVE JoinWith(_, _)
JoinWith(parts, sep) ==
    IF parts = <<>> THEN <<>>
    ELSE IF Len(parts) = 1 THEN Head(parts)
    ELSE Head(parts) \o sep \o JoinWith(Tail(parts), sep)

\* t.__name__
TypeName(cls, t) ==
    CASE t.k = "model" -> ClassOf(cls, t.id).name
      [] t.k = "list" -> c_list
      [] t.k = "dict" -> c_dict
      [] t.k = "literal" -> c_Literal
      [] OTHER -> t.n

\* str(t): a class outside builtins is written with its module
RECURSIVE StrOfType(_, _)
StrOfType(cls, t) ==
    CASE t.k = "model" ->
            JoinWith(ClassOf(cls, t.id).module, <<".">>) \o <<".">> \o ClassOf(cls, t.id).name
      [] t.k = "list" -> c_list \o c_lbr \o StrOfType(cls, t.a[1]) \o c_rbr
      [] t.k = "dict" -> c_dict \o c_lbr \o StrOfType(cls, t.a[1]) \o c_comma
                            \o StrOfType(cls, t.a[2]) \o c_rbr
      [] t.k = "literal" ->
            <<"t", "y", "p", "i", "n", "g", ".", "L", "i", "t", "e", "r", "a", "l", "[">>
            \o JoinWith([i \in 1..Len(t.a) |-> <<"'">> \o t.a[i] \o <<"'">>], c_comma) \o c_rbr
      [] t.k = "union" ->
            JoinWith([i \in 1..Len(t.a) |->
                        IF t.a[i].n = c_NoneType THEN c_None ELSE StrOfType(cls, t.a[i])], <<" ", "|", " ">>)
      [] t.n = c_datetime -> <<"d", "a", "t", "e", "t", "i", "m", "e", ".", "d", "a", "t", "e", "t", "i", "m", "e">>
      [] OTHER -> t.n

\* the type_repr of Parameter.__str__ (lines 39-57)
TypeRepr(cls, type_) ==
    CASE type_.k \in {"scalar", "model", "none"} -> TypeName(cls, type_)
      [] type_.k = "union" ->
            Replace(JoinWith([i \in 1..Len(type_.a) |-> TypeName(cls, type_.a[i])], <<" ", "|", " ">>),
                    c_NoneType, c_None)
      [] type_.k = "list" /\ type_.a[1].k = "model" ->
            c_list \o c_lbr \o get_model_name(ClassOf(cls, type_.a[1].id)) \o c_rbr
      [] OTHER -> Replace(StrOfType(cls, type_), <<"d", "a", "t", "e", "t", "i", "m", "e", ".", "d", "a", "t", "e", "t", "i", "m", "e">>, c_datetime)

\* Parameter.__str__
ParameterStr(cls, param) ==
    IF param.default # PARAMETER_UNDEFINED
    THEN param.alias \o c_colon \o TypeRepr(cls, param.type) \o c_eq \o DefaultRepr(param.default)
    ELSE param.alias \o c_colon \o TypeRepr(cls, param.type)

\* FieldInfo.is_required()
is_required(info) == info.default = PydanticUndefined /\ ~info.default_factory

\* Route.body_parameters
body_parameters(cls, route) ==
    IF route.body = 0 THEN <<>>
    ELSE LET fields == ClassOf(cls, route.body).fields IN
         [i \in 1..Len(fields) |->
            Parameter(fields[i].name, fields[i].type, is_required(fields[i]), fields[i].default)]

\* Route.response_signature
response_signature(cls, route) ==
    LET response == route.response IN
    IF response.k = "list"
    THEN LET return_type == get_args(response)[1] IN
         IF return_type.k = "model"
         THEN c_list \o c_lbr \o get_model_name(ClassOf(cls, return_type.id)) \o c_rbr
         ELSE IF return_type.k = "literal"
         THEN <<"l", "i", "s", "t", "[", "L", "i", "t", "e", "r", "a", "l", "[">>
              \o JoinWith([i \in 1..Len(return_type.a) |->
                              <<"'">> \o return_type.a[i] \o <<"'">>], c_comma)
              \o <<"]", "]">>
         ELSE c_list \o c_lbr \o TypeName(cls, return_type) \o c_rbr
    ELSE IF response.k = "dict"
    THEN LET rt == get_args(response) IN
         IF rt[2].k = "model"
         THEN c_dict \o c_lbr \o TypeName(cls, rt[1]) \o c_comma
              \o get_model_name(ClassOf(cls, rt[2].id)) \o c_rbr
         ELSE c_dict \o c_lbr \o TypeName(cls, rt[1]) \o c_comma \o TypeName(cls, rt[2]) \o c_rbr
    ELSE IF response.k = "none" THEN c_None
    ELSE IF response.k = "model" THEN get_model_name(ClassOf(cls, response.id))
    ELSE TypeName(cls, response)

\* sorted(params, key=lambda p: not p.required): a stable sort on a Boolean key
SortedByNotRequired(params) ==
    SelectSeq(params, LAMBDA p : p.required) \o SelectSeq(params, LAMBDA p : ~p.required)

\* textwrap.indent(text, "    "): every line that is not empty gets the prefix
Indent(text) ==
    LET lines == Split(text, c_nl) IN
    JoinLines([i \in 1..Len(lines) |->
                 IF lines[i] = <<>> THEN <<>> ELSE c_indent \o lines[i]])

\* the "**" of line 181-183
Asterisk(sig, is_dict) ==
    IF is_dict /\ EndsWith(sig, <<"i", "n", "t", "]">>) THEN <<>>
    ELSE IF sig # <<"l", "i", "s", "t", "[", "i", "n", "t", "]">> /\ ~EndsWith(sig, <<",", " ", "l", "i", "s", "t", "]">>) THEN <<"*", "*">>
    ELSE <<>>

\* the parse_body of lines 184-205
ParseBody(response, sig) ==
    LET is_list == StartsWith(sig, <<"l", "i", "s", "t", "[">>)
        is_dict == StartsWith(sig, <<"d", "i", "c", "t", "[">>)
        response_model ==
            IF is_list THEN SubSeq(sig, 6, Len(sig) - 1)
            ELSE IF is_dict THEN Split(SubSeq(sig, 6, Len(sig) - 1), c_comma)[2]
            ELSE sig
        asterisk == Asterisk(sig, is_dict)
    IN
    IF response.k = "none" THEN Indent(<<"r", "e", "t", "u", "r", "n", " ", "N", "o", "n", "e">>)
    ELSE IF is_list
    THEN IF Contains(sig, c_Literal)
         THEN Indent(<<"r", "e", "t", "u", "r", "n", " ", "[", "r", "e", "s", "p", "_", "o", "b", "j", "e", "c", "t", " ", "f", "o", "r", " ", "r", "e", "s", "p", "_", "o", "b", "j", "e", "c", "t", " ", "i", "n", " ", "r", "e", "s", "p", "o", "n", "s", "e", "_", "b", "o", "d", "y", "]", "\n">>)
         ELSE Indent(<<"r", "e", "t", "u", "r", "n", " ", "[">> \o response_model \o c_lpar \o asterisk
                     \o <<"r", "e", "s", "p", "_", "o", "b", "j", "e", "c", "t", ")", " ", "f", "o", "r", " ", "r", "e", "s", "p", "_", "o", "b", "j", "e", "c", "t", " ", "i", "n", " ", "r", "e", "s", "p", "o", "n", "s", "e", "_", "b", "o", "d", "y", "]", "\n">>)
    ELSE IF is_dict
    THEN Indent(<<"r", "e", "t", "u", "r", "n", " ", "{", "k", "e", "y", ":", " ">> \o response_model \o c_lpar \o asterisk
                \o <<"v", "a", "l", "u", "e", ")", " ", "f", "o", "r", " ", "k", "e", "y", ",", " ", "v", "a", "l", "u", "e", " ", "i", "n", " ", "r", "e", "s", "p", "o", "n", "s", "e", "_", "b", "o", "d", "y", ".", "i", "t", "e", "m", "s", "(", ")", "}">>)
    ELSE Indent(<<"r", "e", "t", "u", "r", "n", " ">> \o response_model \o c_lpar \o asterisk \o <<"r", "e", "s", "p", "o", "n", "s", "e", "_", "b", "o", "d", "y", ")">>)

\* Route.handler: the rendered parameters, and the lines of the method. The
\* route's name, path, description and method are kept as one symbol each.
handler(cls, route) ==
    LET all == body_parameters(cls, route) \o route.path_parameters \o route.query_parameters
        sorted == SortedByNotRequired(all)
        rendered == [i \in 1..Len(sorted) |-> ParameterStr(cls, sorted[i])]
        sig == response_signature(cls, route)
        bps == body_parameters(cls, route)
        params_dict ==
            JoinWith([i \in 1..Len(route.query_parameters) |->
                        <<"\"">> \o route.query_parameters[i].alias \o <<"\"", ":">>
                        \o route.query_parameters[i].alias], c_comma)
        payload_dict ==
            JoinWith([i \in 1..Len(bps) |->
                        <<"\"">> \o bps[i].alias \o <<"\"", ":">> \o bps[i].alias
                        \o (IF bps[i].type = TDatetime THEN <<".", "i", "s", "o", "f", "o", "r", "m", "a", "t", "(", ")">> ELSE <<>>)], c_comma)
        lines ==
            [signature |-> <<"a", "s", "y", "n", "c", " ", "d", "e", "f", " ">> \o <<route.name>> \o <<"(", "s", "e", "l", "f", ",", " ">>
                           \o JoinWith(rendered, c_comma) \o <<")", " ", "-", ">", " ">> \o sig \o <<":", "\n">>,
             docstring |-> Indent(<<"\"", "\"", "\"">> \o <<route.description>> \o <<"\"", "\"", "\"">>),
             url_body |-> Indent(<<"u", "r", "l", " ", "=", " ">>
                           \o (IF route.path_parameters # <<>> THEN <<"f">> ELSE <<>>)
                           \o <<"'", route.path, "'">>),
             params_body |-> IF route.query_parameters # <<>>
                             THEN Indent(<<"p", "a", "r", "a", "m", "s", " ", "=", " ", "{">> \o params_dict \o <<"}">>)
                             ELSE Indent(<<"p", "a", "r", "a", "m", "s", " ", "=", " ", "N", "o", "n", "e">>),
             payload_body |-> IF bps # <<>>
                              THEN Indent(<<"p", "a", "y", "l", "o", "a", "d", " ", "=", " ", "{">> \o payload_dict \o <<"}">>)
                              ELSE Indent(<<"p", "a", "y", "l", "o", "a", "d", " ", "=", " ", "N", "o", "n", "e">>),
             httpx_body |-> Indent(<<"a", "p", "i", "_", "r", "e", "s", "p", "o", "n", "s", "e", " ", "=", " ", "a", "w", "a", "i", "t", " ", "s", "e", "l", "f", ".", "_", "c", "l", "i", "e", "n", "t", ".", "r", "e", "q", "u", "e", "s", "t", "(", "\"">>
                             \o <<route.method>> \o <<"\"", ",", " ", "u", "r", "l", ",", " ", "j", "s", "o", "n", "=", "p", "a", "y", "l", "o", "a", "d", ",", " ", "p", "a", "r", "a", "m", "s", "=", "p", "a", "r", "a", "m", "s", ")">>),
             raise_error_body |-> Indent(<<"a", "p", "i", "_", "r", "e", "s", "p", "o", "n", "s", "e", ".", "r", "a", "i", "s", "e", "_", "f", "o", "r", "_", "s", "t", "a", "t", "u", "s", "(", ")">>),
             response_json_body |-> IF route.response.k # "none"
                                    THEN Indent(<<"r", "e", "s", "p", "o", "n", "s", "e", "_", "b", "o", "d", "y", " ", "=", " ", "a", "p", "i", "_", "r", "e", "s", "p", "o", "n", "s", "e", ".", "j", "s", "o", "n", "(", ")">>)
                                    ELSE Indent(<<>>),
             parse_body |-> ParseBody(route.response, sig)]
    IN
    [params |-> rendered, lines |-> lines]

\* the string Route.handler returns (lines 207-224)
HandlerText(h) ==
    h.lines.signature \o h.lines.docstring \o c_nl \o h.lines.url_body \o c_nl
    \o h.lines.params_body \o c_nl \o h.lines.payload_body \o c_nl
    \o h.lines.httpx_body \o c_nl \o h.lines.raise_error_body \o c_nl
    \o h.lines.response_json_body \o c_nl \o h.lines.parse_body

\* FastRoutes.get_handlers: one handler per route, and the text it returns
get_handlers(cls, rs) == [i \in 1..Len(rs) |-> handler(cls, rs[i])]

HandlersCode(hs) ==
    Join([i \in 1..Len(hs) |-> HandlerText(hs[i]) \o c_nl \o c_nl])


-----------------------------------------------------------------------------
(* Route.handler on the route of a constructed FastRoutes                  *)

MaxBodyFields == 2
MaxQuery == 2

\* what a body field declares after its annotation: nothing, a default, or a
\* default_factory
FieldDefaults ==
    {[default |-> PydanticUndefined, default_factory |-> FALSE],
     [default |-> "5", default_factory |-> FALSE],
     [default |-> PydanticUndefined, default_factory |-> TRUE]}

\* class 1, m.Item, with integer fields a, b, ...; class 2, m.Point, with none
HandlerUniverses ==
    {<< [module |-> << <<"m">> >>, name |-> <<"I", "t", "e", "m">>, base |-> 0,
         fields |-> [i \in 1..n |->
                        Field(<<Lowers[i]>>, TInt, ds[i].default, ds[i].default_factory)],
         validator |-> FALSE],
        [module |-> << <<"m">> >>, name |-> <<"P", "o", "i", "n", "t">>, base |-> 0,
         fields |-> <<>>, validator |-> FALSE] >> :
        n \in {MaxBodyFields}, ds \in [1..MaxBodyFields -> FieldDefaults]}

\* the host's query parameters: required without a default, or optional with
\* the default None; the i-th is named by the (16+i)-th letter
QueryParams ==
    UNION {{[i \in 1..n |-> Parameter(<<Lowers[16 + i]>>,
                                      IF req[i] THEN TInt ELSE TUnion(<<TInt, TNoneType>>),
                                      req[i],
                                      IF req[i] THEN PydanticUndefined ELSE "None")] :
                req \in [1..n -> BOOLEAN]} : n \in 0..MaxQuery}

PathParams == {<<>>, <<Parameter(<<"i", "d">>, TInt, TRUE, PydanticUndefined)>>}

HandlerResponses ==
    {TNone, TInt, TStr, TDatetime, TModel(1), TModel(2)}
    \cup {TList(t) : t \in {TInt, TStr, TModel(1), TModel(2), TLiteral(<< <<"x">>, <<"y">> >>),
                            TList(TInt)}}
    \cup {TDict(TStr, t) : t \in {TInt, TStr, TModel(1), TModel(2), TList(TInt)}}

InitHandler ==
    /\ pc = "constructed"
    /\ classes \in HandlerUniverses
    /\ routes \in {<<[index |-> 0, name |-> "handler", method |-> "GET", path |-> "/p",
                     description |-> "doc", body |-> b, path_parameters |-> pp,
                     query_parameters |-> qp, response |-> r]>> :
                        b \in {0, 1}, pp \in PathParams, qp \in QueryParams,
                        r \in HandlerResponses}
    /\ table = <<>> /\ paths_to_exclude = <<>>
    /\ raised = "none" /\ models = NoModels /\ handlers = <<>> /\ resolved = <<>>
    /\ IdleCli

\* FastRoutes.get_handlers()
GetHandlers ==
    /\ pc = "constructed"
    /\ handlers' = get_handlers(classes, routes)
    /\ pc' = "handlers"
    /\ UNCHANGED <<classes, table, paths_to_exclude, routes, raised, models, resolved>>
    /\ UNCHANGED cliVars

NextHandler == GetHandlers

SpecHandler == InitHandler /\ [][NextHandler]_vars

\* a rendered parameter of the form 'alias: type = default'
HasDefault(text) == Contains(text, c_eq)

\* C7: in the emitted signature no parameter rendered with a default
\* ('alias: type = default') precedes a parameter rendered without one.
DefaultsAfterNonDefaults ==
    pc = "handlers" =>
        \A k \in 1..Len(handlers) :
            LET r == handlers[k].params IN
            \A i, j \in 1..Len(r) : (i < j /\ HasDefault(r[i])) => HasDefault(r[j])

\* the parse-and-return statement expands the decoded value with '**'
UsesExpansion(h) == Contains(h.lines.parse_body, <<"(", "*", "*">>)

\* a list of the bare integer type, or a mapping to it
BareIntegerShape(response) ==
    \/ response.k = "list" /\ response.a[1] = TInt
    \/ response.k = "dict" /\ response.a[2] = TInt

\* a scalar or a model, or a list of / a mapping to a scalar or a model
PlainShape(response) ==
    \/ response.k \in {"scalar", "model"}
    \/ response.k = "list" /\ response.a[1].k \in {"scalar", "model"}
    \/ response.k = "dict" /\ response.a[2].k \in {"scalar", "model"}

\* C8: for a declared response, '**' is omitted exactly when the response is a
\* list of the bare integer type or a mapping to it; every list of / mapping
\* to a model, and every single model, is rebuilt with '**'.
ExpansionOmittedOnlyForIntegers ==
    pc = "handlers" =>
        \A k \in 1..Len(handlers) :
            PlainShape(routes[k].response) =>
                (UsesExpansion(handlers[k]) <=> ~BareIntegerShape(routes[k].response))


-----------------------------------------------------------------------------
(* cli.py: generate(url, output)                                           *)

c_fastroutes == <<"/", "f", "a", "s", "t", "r", "o", "u", "t", "e", "s">>

\* s.rstrip("/")
RECURSIVE RStripSlash(_)
RStripSlash(s) ==
    IF s # <<>> /\ s[Len(s)] = "/" THEN RStripSlash(SubSeq(s, 1, Len(s) - 1)) ELSE s

\* lines 9-12
ClientUrl(u) ==
    IF ~EndsWith(u, c_fastroutes) THEN RStripSlash(u) \o c_fastroutes ELSE u

\* os.path.dirname(output), a path being its sequence of components
Dirname(path) == SubSeq(path, 1, Len(path) - 1)

\* os.makedirs(path) without exist_ok: [err, dirs]
makedirs(dirs, path) ==
    IF path = <<>> THEN [err |-> "FileNotFoundError", dirs |-> dirs]
    ELSE IF path \in dirs THEN [err |-> "FileExistsError", dirs |-> dirs]
    ELSE [err |-> "none", dirs |-> dirs \cup {SubSeq(path, 1, k) : k \in 1..Len(path)}]

\* open(output, "wb") and f.write(content): [err, files]
WriteFile(f, path, content) ==
    IF path \in f.dirs THEN [err |-> "IsADirectoryError", files |-> f.files]
    ELSE IF Dirname(path) # <<>> /\ Dirname(path) \notin f.dirs
    THEN [err |-> "FileNotFoundError", files |-> f.files]
    ELSE [err |-> "none",
          files |-> [q \in DOMAIN f.files \cup {path} |->
                        IF q = path THEN content ELSE f.files[q]]]

\* what generate does given what the GET does: the file system after it, what
\* it printed, the process exit code and the exception that escaped it
GenerateOutcome(u, out, n, f) ==
    LET made == makedirs(f.dirs, Dirname(out))
        wrote == WriteFile([f EXCEPT !.dirs = made.dirs], out, "content")
        said(msg) == [said |-> msg, requested |-> ClientUrl(u)]
    IN
    IF n # "ok"
    THEN [fs |-> f, report |-> said("fetch_failed"), exit_code |-> 1, raised |-> "none"]
    ELSE IF made.err # "none"
    THEN [fs |-> f, report |-> said("none"), exit_code |-> 1, raised |-> made.err]
    ELSE IF wrote.err # "none"
    THEN [fs |-> [f EXCEPT !.dirs = made.dirs], report |-> said("none"), exit_code |-> 1,
          raised |-> wrote.err]
    ELSE [fs |-> [dirs |-> made.dirs, files |-> wrote.files], report |-> said("saved"),
          exit_code |-> 0, raised |-> "none"]

MaxDepth == 2

\* d, d/e, ...: the directory of depth k
DirOfDepth(k) == [i \in 1..k |-> Lowers[3 + i]]

\* out.py, d/out.py, d/e/out.py, ...
Outputs == {Append(DirOfDepth(k), "out.py") : k \in 0..MaxDepth}

\* the directories that exist: d, ... up to some depth
DirSets == {{DirOfDepth(j) : j \in 1..k} : k \in 0..MaxDepth}

Urls == {<<"h">>, <<"h", "/">>, <<"h">> \o c_fastroutes}

\* "ok": the GET answers 2xx; "status": raise_for_status raises HTTPStatusError;
\* "connect": httpx.get raises a transport error. All three are httpx.HTTPError
NetOutcomes == {"ok", "status", "connect"}

InitCli ==
    /\ pc = "start"
    /\ url \in Urls
    /\ output \in Outputs
    /\ net \in NetOutcomes
    /\ \E ds \in DirSets, old \in BOOLEAN :
        /\ old => (Dirname(output) = <<>> \/ Dirname(output) \in ds)
        /\ fs = [dirs |-> ds,
                 files |-> IF old THEN [q \in {output} |-> "old"] ELSE <<>>]
    /\ report = NoReport /\ exit_code = 0
    /\ IdlePipe

\* generate(url, output), to its end
Generate ==
    /\ pc = "start"
    /\ \E r \in {GenerateOutcome(url, output, net, fs)} :
        /\ fs' = r.fs
        /\ report' = r.report
        /\ exit_code' = r.exit_code
        /\ raised' = r.raised
    /\ pc' = "done"
    /\ UNCHANGED <<url, output, net>>
    /\ UNCHANGED <<classes, table, paths_to_exclude, routes, models, handlers, resolved>>

NextCli == Generate

SpecCli == InitCli /\ [][NextCli]_vars

\* C10: once the GET has succeeded the run ends with the fetched content in the
\* file at output and a success report, whether output's parent directory
\* exists, does not exist, or output has no directory component; a transport
\* failure is reported as a fetch failure with exit code 1 and leaves the file
\* system unchanged.
FetchedFileIsSaved ==
    [][(pc = "start" /\ pc' = "done") =>
        /\ net = "ok" =>
            /\ output \in DOMAIN fs'.files
            /\ fs'.files[output] = "content"
            /\ report'.said = "saved"
        /\ net # "ok" =>
            /\ report'.said = "fetch_failed"
            /\ exit_code' = 1
            /\ fs' = fs]_vars


-----------------------------------------------------------------------------
(* FastRoutes(app, name, paths_to_exclude) and export_code                 *)

MaxTable == 2

\* m.Item with one integer field and m.Point with none
PipelineClasses ==
    << [module |-> << <<"m">> >>, name |-> <<"I", "t", "e", "m">>, base |-> 0,
        fields |-> <<Field(<<"a">>, TInt, PydanticUndefined, FALSE)>>, validator |-> FALSE],
       [module |-> << <<"m">> >>, name |-> <<"P", "o", "i", "n", "t">>, base |-> 0,
        fields |-> <<>>, validator |-> FALSE] >>

\* entry i of app.routes: a user-defined endpoint (APIRoute) or another kind
\* of entry (a Mount, the documentation routes); it is named after its position
Entry(i, kind, path, methods, response) ==
    [kind |-> kind, path |-> path, name |-> <<"h1", "h2", "h3", "h4", "h5", "h6">>[i],
     description |-> "", methods |-> methods, body |-> 0,
     path_params |-> <<>>, query_params |-> <<>>, response |-> response]

EntryKinds == {"APIRoute", "Mount"}
Paths == {"/a", "/b"}
ExclusionLists == {<<>>, <<"/a">>, <<"/b">>, <<"/a", "/b">>}
MethodSets == {{"GET"}, {"PUT", "POST"}}
PipelineResponses == {TNone, TModel(1), TDict(TStr, TModel(2))}

Init ==
    /\ pc = "start"
    /\ classes = PipelineClasses
    /\ \E n \in 0..MaxTable :
        \E ks \in [1..n -> EntryKinds], ps \in [1..n -> Paths],
           ms \in [1..n -> MethodSets], rs \in [1..n -> PipelineResponses] :
            table = [i \in 1..n |-> Entry(i, ks[i], ps[i], ms[i], rs[i])]
    /\ paths_to_exclude \in ExclusionLists
    /\ routes = <<>> /\ raised = "none" /\ models = NoModels /\ handlers = <<>>
    /\ resolved = <<>>
    /\ IdleCli

\* FastRoutes.__init__: self.routes = Route.extract(app, paths_to_exclude)
Construct ==
    /\ pc = "start"
    /\ \E r \in {extract(table, paths_to_exclude)} :
        /\ routes' = r.routes
        /\ raised' = r.raised
        /\ pc' = IF r.raised = "none" THEN "constructed" ELSE "raised"
    /\ UNCHANGED <<classes, table, paths_to_exclude, models, handlers, resolved>>
    /\ UNCHANGED cliVars

\* FastRoutes.export_code: get_models, then get_handlers
ExportCode ==
    /\ pc = "constructed"
    /\ \E r \in {get_models(classes, routes)} :
        /\ models' = r
        /\ raised' = r.raised
        /\ handlers' = IF r.raised = "none" THEN get_handlers(classes, routes) ELSE <<>>
        /\ pc' = IF r.raised = "none" THEN "exported" ELSE "raised"
    /\ UNCHANGED <<classes, table, paths_to_exclude, routes, resolved>>
    /\ UNCHANGED cliVars

Next == Construct \/ ExportCode

Spec == Init /\ [][Next]_vars

\* entry i is a user-defined endpoint whose path is not excluded
Kept(i) ==
    /\ table[i].kind = "APIRoute"
    /\ \A j \in 1..Len(paths_to_exclude) : paths_to_exclude[j] # table[i].path

\* the model a response type names: itself, its list element or mapping value
ResponseModels(response) ==
    IF response.k = "model" THEN {response.id}
    ELSE IF response.k \in {"list", "dict"}
    THEN {response.a[k].id : k \in {j \in 1..Len(response.a) : response.a[j].k = "model"}}
    ELSE {}

\* C6: the routes of a constructed FastRoutes are the kept entries of the host
\* table, in table order, each with its table position as index; the emitted
\* handlers are those of the kept entries and of no other, and the models
\* discovered are those the kept entries use, and all of those.
OnlyKeptRoutesContribute ==
    /\ pc \in {"constructed", "exported"} =>
        /\ {routes[k].index + 1 : k \in 1..Len(routes)} = {i \in 1..Len(table) : Kept(i)}
        /\ \A k \in 1..Len(routes) :
            /\ \A l \in 1..Len(routes) : k < l => routes[k].index < routes[l].index
            /\ routes[k].index + 1 \in 1..Len(table)
            /\ routes[k].path = table[routes[k].index + 1].path
            /\ routes[k].name = table[routes[k].index + 1].name
            /\ routes[k].response = table[routes[k].index + 1].response
    /\ pc = "exported" =>
        /\ \A i \in 1..Len(table) :
            Cardinality({k \in 1..Len(handlers) :
                            Contains(handlers[k].lines.signature, <<table[i].name>>)})
                = IF Kept(i) THEN 1 ELSE 0
        /\ Len(handlers) = Cardinality({i \in 1..Len(table) : Kept(i)})
        /\ Discovered =
            UNION {ResponseModels(table[i].response) : i \in {j \in 1..Len(table) : Kept(j)}}

\* a model is used by an excluded and by a non-excluded route, and is discovered
SharedModelStillDiscovered ==
    /\ pc = "exported"
    /\ Len(table) = 2
    /\ table[1].kind = "APIRoute" /\ table[2].kind = "APIRoute"
    /\ table[1].response = TModel(1) /\ table[2].response = TModel(1)
    /\ table[1].path = "/a" /\ table[2].path = "/b"
    /\ paths_to_exclude = <<"/a">>
    /\ Len(handlers) = 1
    /\ Discovered = {1}


-----------------------------------------------------------------------------
(* Route.extract on entries with arbitrary method sets                     *)

MethodNames == {"GET", "POST", "DELETE", "PUT", "PATCH", "HEAD", "OPTIONS", "TRACE"}

\* what the entries other than the chosen one support
PlainMethodSets == {{"GET", "POST"}, {"TRACE"}}

\* one entry of the table has any set of method names, the others support GET
\* and POST or support TRACE only
InitMethod ==
    /\ pc = "start"
    /\ classes = PipelineClasses
    /\ \E n \in 1..MaxTable :
        \E w \in 1..n, ms \in SUBSET MethodNames :
            \E ks \in [1..n -> EntryKinds], ps \in [1..n -> Paths],
               os \in [(1..n) \ {w} -> PlainMethodSets] :
                table = [i \in 1..n |->
                            Entry(i, ks[i], ps[i], IF i = w THEN ms ELSE os[i], TNone)]
    /\ paths_to_exclude \in {<<>>, <<"/a">>}
    /\ routes = <<>> /\ raised = "none" /\ models = NoModels /\ handlers = <<>>
    /\ resolved = <<>>
    /\ IdleCli

NextMethod == Construct

SpecMethod == InitMethod /\ [][NextMethod]_vars

ClaimedPriority == <<"GET", "POST", "DELETE", "PUT", "PATCH", "HEAD", "OPTIONS">>

RankOf(m) == CHOOSE i \in 1..Len(ClaimedPriority) : ClaimedPriority[i] = m

Supported == {ClaimedPriority[i] : i \in 1..Len(ClaimedPriority)}

\* C5: a route's method is the member of its entry's method set that comes
\* first in GET, POST, DELETE, PUT, PATCH, HEAD, OPTIONS; construction raises
\* the unsupported-method error exactly when a kept entry's method set holds
\* none of the seven, and then no route list exists, not even a partial one.
MethodChosenOrRaised ==
    /\ pc \in {"constructed", "exported"} =>
        \A k \in 1..Len(routes) :
            LET ms == table[routes[k].index + 1].methods IN
            /\ routes[k].method \in ms \cap Supported
            /\ \A m \in ms \cap Supported : RankOf(routes[k].method) <= RankOf(m)
    /\ pc # "start" =>
        (pc = "raised" <=> \E i \in 1..Len(table) : Kept(i) /\ table[i].methods \cap Supported = {})
    /\ pc = "raised" => raised = ValueError /\ routes = <<>>

\* the second entry raises after the first one has yielded a route
RaisedAfterFirstRoute ==
    /\ pc = "raised"
    /\ Len(table) = 2
    /\ Kept(1) /\ table[1].methods = {"GET", "POST"}
    /\ Kept(2) /\ table[2].methods = {"TRACE"}
    /\ routes = <<>>

====
